---- MODULE Spec2Model ----
(***************************************************************************)
(* Two parts of lilnasy/oxc:                                               *)
(*   - the TypeScript re-lexing entry points of the lexer                  *)
(*     (crates/oxc_parser/src/lexer/typescript.rs), driven by a parser     *)
(*     that scans tokens and asks for a compound angle-bracket operator    *)
(*     to be narrowed to a single `<` or `>`;                              *)
(*   - the lint rule jsdoc/require-public-doc                              *)
(*     (crates/oxc_linter/src/rules/jsdoc/require_public_doc.rs).          *)
(*                                                                         *)
(* Offsets are 0-based byte offsets, as in the lexer; source[p + 1] is the *)
(* byte at offset p.  A u32/usize value that wrapped below zero is written *)
(* as the negative integer with the same low bits (-1 is u32::MAX).        *)
(***************************************************************************)
EXTENDS Integers, Sequences, FiniteSets, TLC

\* ------------------------------------------------------------------ bounds
MaxLen == 4
MaxEntries == 2
MaxNodes == 2

VARIABLES
    \* lexer
    source,            \* the immutable source buffer, a sequence of bytes
    pos,               \* Source position: Lexer::offset()
    token,             \* Lexer::token, the current token
    status,            \* "ok", or "panic" once an assertion/overflow check failed
    overflow_checks,   \* build setting: TRUE = arithmetic overflow panics
    \* parser
    tokens,            \* the token stream as the parser holds it
    \* history of the run
    last,              \* the last lexer call and the state it started from
    lastNarrow,        \* the last re-lex call that returned a token
    narrowed,          \* per stream slot: how often a re-lex call replaced it
    clean,             \* every re-lex call so far kept the caller's contract
    \* lint rule: what run_once reads
    local_export_entries,   \* ModuleRecord::local_export_entries
    root_binding,           \* Scoping::get_root_binding, by name
    declaration,            \* the node of Scoping::symbol_declaration, by symbol
    parent,                 \* AstNodes::parent_node, by node
    jsdoc,                  \* the nodes JSDocFinder::get_all_by_node finds docs for
    \* lint rule: what run_once leaves
    diagnostics,            \* spans passed to ctx.diagnostic, in order
    seen,                   \* the set `seen` when run_once returns
    ran                     \* run_once has run

lexvars == <<source, pos, token, status, overflow_checks, tokens,
             last, lastNarrow, narrowed, clean>>

lintvars == <<local_export_entries, root_binding, declaration, parent, jsdoc,
              diagnostics, seen, ran>>

vars == <<lexvars, lintvars>>

\* ------------------------------------------------------------------ tokens
Chars == {"a", "<", ">", "="}

Sources == UNION {[1..n -> Chars] : n \in 1..MaxLen}

\* Operator and punctuation kinds and their text.
OperatorText ==
    [ LAngle       |-> <<"<">>,
      LShift       |-> <<"<", "<">>,
      ShiftLeftEq  |-> <<"<", "<", "=">>,
      LtEq         |-> <<"<", "=">>,
      RAngle       |-> <<">">>,
      RShift       |-> <<">", ">">>,
      ShiftRight3  |-> <<">", ">", ">">>,
      ShiftRightEq |-> <<">", ">", "=">>,
      Assign       |-> <<"=">> ]

OperatorKinds == DOMAIN OperatorText

\* The compound kinds each entry point is documented to re-tokenize.
LAngleCompounds == {"LShift", "ShiftLeftEq", "LtEq"}
RAngleCompounds == {"RShift", "ShiftRight3", "ShiftRightEq"}
Compounds == LAngleCompounds \cup RAngleCompounds

DefaultToken == [kind |-> "Eof", start |-> 0, end |-> 0]

Width(t) == t.end - t.start

\* ------------------------------------------------------------------ lexer
\* The lexer: its Source (buffer and read position) and current token.
Lx == [source |-> source, pos |-> pos, token |-> token, status |-> status]

Panic(lx) == [lx EXCEPT !.status = "panic"]

\* Token::set_start
set_start(lx, start) == [lx EXCEPT !.token.start = start]

\* Source::back: move the read position back by n bytes; going back past
\* the start of the source is an assertion failure.
back(lx, n) ==
    IF n < 0 \/ n > lx.pos THEN Panic(lx) ELSE [lx EXCEPT !.pos = lx.pos - n]

\* Lexer::finish_next: finish the current token with this kind, ending at
\* the read position; the finished token is what the call returns.
finish_next(lx, kind) ==
    [lx EXCEPT !.token.kind = kind, !.token.end = lx.pos]

\* Kind of operator whose text is at offset p of src.
Matches(src, p, k) ==
    LET t == OperatorText[k] IN
    /\ p + Len(t) <= Len(src)
    /\ \A i \in 1..Len(t) : src[p + i] = t[i]

RECURSIVE IdentifierLen(_, _)
IdentifierLen(src, p) ==
    IF p < Len(src) /\ src[p + 1] = "a" THEN 1 + IdentifierLen(src, p + 1) ELSE 0

\* The greedy scan of one token at offset p < Len(src): the longest operator
\* whose text is there, else an identifier.
read_next_token(src, p) ==
    LET ks == {k \in OperatorKinds : Matches(src, p, k)} IN
    IF ks = {}
    THEN [kind |-> "Identifier", len |-> IdentifierLen(src, p)]
    ELSE LET k == CHOOSE k \in ks :
                    \A j \in ks : Len(OperatorText[j]) <= Len(OperatorText[k])
         IN [kind |-> k, len |-> Len(OperatorText[k])]

\* Lexer::next_token: start a token at the read position, consume the
\* longest match, finish the token.
next_token(lx, src) ==
    LET r  == read_next_token(src, lx.pos)
        l1 == set_start(lx, lx.pos)
        l2 == [l1 EXCEPT !.pos = l1.pos + r.len]
    IN finish_next(l2, r.kind)

\* A plausible slip: the token start is computed from offset - 1.
re_lex_l_angle_start_slip(lx, offset) ==
    IF lx.pos < offset - 1 /\ overflow_checks THEN Panic(lx)
    ELSE LET l1 == set_start(lx, lx.pos - (offset - 1)) IN
         IF offset < 1 /\ overflow_checks THEN Panic(l1)
         ELSE LET l2 == back(l1, offset - 1) IN
              IF l2.status = "panic" THEN l2 ELSE finish_next(l2, "LAngle")

\* A plausible slip: the cursor is rewound by the whole offset.
re_lex_l_angle_back_slip(lx, offset) ==
    IF lx.pos < offset /\ overflow_checks THEN Panic(lx)
    ELSE LET l1 == set_start(lx, lx.pos - offset) IN
         LET l2 == back(l1, offset) IN
         IF l2.status = "panic" THEN l2 ELSE finish_next(l2, "LAngle")

\* A plausible slip: the token is finished with the kind it already had.
re_lex_l_angle_kind_slip(lx, offset) ==
    IF lx.pos < offset /\ overflow_checks THEN Panic(lx)
    ELSE LET l1 == set_start(lx, lx.pos - offset) IN
         IF offset < 1 /\ overflow_checks THEN Panic(l1)
         ELSE LET l2 == back(l1, offset - 1) IN
              IF l2.status = "panic" THEN l2 ELSE finish_next(l2, l2.token.kind)

\* A plausible slip: the bytes given back are dropped from the buffer.
re_lex_l_angle_truncate_slip(lx, offset) ==
    IF lx.pos < offset /\ overflow_checks THEN Panic(lx)
    ELSE LET l1 == set_start(lx, lx.pos - offset) IN
         IF offset < 1 /\ overflow_checks THEN Panic(l1)
         ELSE LET l2 == back(l1, offset - 1) IN
              IF l2.status = "panic" THEN l2
              ELSE finish_next([l2 EXCEPT !.source = SubSeq(@, 1, l2.pos)], "LAngle")

\* Lexer::re_lex_as_typescript_l_angle
re_lex_as_typescript_l_angle(lx, offset) ==
    IF lx.pos < offset /\ overflow_checks THEN Panic(lx)
    ELSE LET l1 == set_start(lx, lx.pos - offset) IN
         IF offset < 1 /\ overflow_checks THEN Panic(l1)
         ELSE LET l2 == back(l1, offset - 1) IN
              IF l2.status = "panic" THEN l2 ELSE finish_next(l2, "LAngle")

\* A plausible slip: copied from the left-angle entry point, kind not changed.
re_lex_r_angle_copy_slip(lx, offset) ==
    IF lx.pos < offset /\ overflow_checks THEN Panic(lx)
    ELSE LET l1 == set_start(lx, lx.pos - offset) IN
         IF offset < 1 /\ overflow_checks THEN Panic(l1)
         ELSE LET l2 == back(l1, offset - 1) IN
              IF l2.status = "panic" THEN l2 ELSE finish_next(l2, "LAngle")

\* A plausible slip: the cursor is rewound by the whole offset.
re_lex_r_angle_back_slip(lx, offset) ==
    IF lx.pos < offset /\ overflow_checks THEN Panic(lx)
    ELSE LET l1 == set_start(lx, lx.pos - offset) IN
         LET l2 == back(l1, offset) IN
         IF l2.status = "panic" THEN l2 ELSE finish_next(l2, "RAngle")

\* Lexer::re_lex_as_typescript_r_angle
re_lex_as_typescript_r_angle(lx, offset) ==
    IF lx.pos < offset /\ overflow_checks THEN Panic(lx)
    ELSE LET l1 == set_start(lx, lx.pos - offset) IN
         IF offset < 1 /\ overflow_checks THEN Panic(l1)
         ELSE LET l2 == back(l1, offset - 1) IN
              IF l2.status = "panic" THEN l2 ELSE finish_next(l2, "RAngle")

\* ------------------------------------------------------------------ parser
\* The offsets a caller passes: the widths of the compounds, whatever the
\* current token is.
Offsets == {Len(OperatorText[k]) : k \in Compounds}

NoCall == [op |-> "init", offset |-> 0, prePos |-> 0, preToken |-> DefaultToken,
           conforming |-> TRUE, idx |-> 0]

\* The caller's contract for a re-lex call: the parser's current token is the
\* lexer's, the cursor is at its end, it is a compound the entry point
\* re-tokenizes, and offset is its width.
Conforming(family, offset) ==
    /\ tokens # <<>>
    /\ tokens[Len(tokens)] = token
    /\ pos = token.end
    /\ token.kind \in family
    /\ offset = Width(token)

LexInit ==
    /\ source \in Sources
    /\ pos = 0
    /\ token = DefaultToken
    /\ status = "ok"
    /\ overflow_checks \in BOOLEAN
    /\ tokens = <<>>
    /\ last = NoCall
    /\ lastNarrow = NoCall
    /\ narrowed = <<>>
    /\ clean = TRUE

\* The parser asks for the next token.  A run is followed up to the first
\* re-lex call that breaks the caller's contract.
NextToken ==
    /\ status = "ok"
    /\ clean
    /\ pos < Len(source)
    /\ LET r == next_token(Lx, source) IN
        /\ pos' = r.pos
        /\ token' = r.token
        /\ status' = r.status
        /\ tokens' = Append(tokens, r.token)
    /\ narrowed' = Append(narrowed, 0)
    /\ last' = [op |-> "scan", offset |-> 0, prePos |-> pos, preToken |-> token,
                conforming |-> TRUE, idx |-> Len(tokens) + 1]
    /\ UNCHANGED <<source, overflow_checks, lastNarrow, clean>>
    /\ UNCHANGED lintvars

\* The parser replaces its current token by the one a re-lex call returns.
ReLex(op, family, r, offset) ==
    /\ source' = r.source
    /\ pos' = r.pos
    /\ token' = r.token
    /\ status' = r.status
    /\ tokens' = IF r.status = "ok"
                 THEN [tokens EXCEPT ![Len(tokens)] = r.token]
                 ELSE tokens
    /\ narrowed' = IF r.status = "ok"
                   THEN [narrowed EXCEPT ![Len(tokens)] = @ + 1]
                   ELSE narrowed
    /\ last' = [op |-> op, offset |-> offset, prePos |-> pos, preToken |-> token,
                conforming |-> Conforming(family, offset), idx |-> Len(tokens)]
    /\ lastNarrow' = IF r.status = "ok" THEN last' ELSE lastNarrow
    /\ clean' = (clean /\ Conforming(family, offset))
    /\ UNCHANGED overflow_checks
    /\ UNCHANGED lintvars

ReLexLAngle ==
    /\ status = "ok"
    /\ tokens # <<>>
    /\ clean
    /\ \E offset \in Offsets :
        ReLex("l_angle", LAngleCompounds,
              re_lex_as_typescript_l_angle(Lx, offset), offset)

ReLexRAngle ==
    /\ status = "ok"
    /\ tokens # <<>>
    /\ clean
    /\ \E offset \in Offsets :
        ReLex("r_angle", RAngleCompounds,
              re_lex_as_typescript_r_angle(Lx, offset), offset)

\* ------------------------------------------------------------------ lint rule
Names == {"foo", "bar"}
\* Symbol ids are labels: the binding of a name, where it has one, is written
\* with a fixed id.
SymbolOf == [foo |-> 1, bar |-> 2]
Symbols == {SymbolOf[n] : n \in Names}
NoSymbol == 0
Program == 0
Nodes == 1..MaxNodes

\* ExportLocalName
LocalNames ==
    {[kind |-> "Null", name |-> ""]}
    \cup {[kind |-> k, name |-> n] : k \in {"Name", "Default"}, n \in Names}

EntryShapes == [module_request : BOOLEAN, local_name : LocalNames]

\* Export entries in source order; the span of the i-th is written i.
EntryLists ==
    UNION {{[i \in 1..n |-> [module_request |-> f[i].module_request,
                             local_name |-> f[i].local_name,
                             span |-> i]] : f \in [1..n -> EntryShapes]}
           : n \in 0..MaxEntries}

\* run_once, first loop: the (name, span) pairs of the local exports.
RECURSIVE exported_symbols_with_reexports(_)
exported_symbols_with_reexports(entries) ==
    IF entries = <<>> THEN <<>>
    ELSE LET e == Head(entries)
             rest == exported_symbols_with_reexports(Tail(entries))
         IN IF e.local_name.kind \in {"Name", "Default"}
            THEN <<[name |-> e.local_name.name, span |-> e.span]>> \o rest
            ELSE rest

RECURSIVE exported_symbols(_)
exported_symbols(entries) ==
    IF entries = <<>> THEN <<>>
    ELSE LET e == Head(entries)
             rest == exported_symbols(Tail(entries))
         IN IF e.module_request THEN rest
            ELSE IF e.local_name.kind \in {"Name", "Default"}
                 THEN <<[name |-> e.local_name.name, span |-> e.span]>> \o rest
                 ELSE rest

\* A plausible slip: only the declaration node itself is looked at.
has_any_attached_jsdoc_no_walk(start) == start \in jsdoc

\* has_any_attached_jsdoc: walk up from the declaration node to Program.
RECURSIVE has_any_attached_jsdoc(_)
has_any_attached_jsdoc(start) ==
    IF start \in jsdoc THEN TRUE
    ELSE IF parent[start] = Program THEN FALSE
         ELSE has_any_attached_jsdoc(parent[start])

\* run_once, second loop.
RECURSIVE check_exported(_, _, _)
check_exported(exported, seen_so_far, reported) ==
    IF exported = <<>> THEN [seen |-> seen_so_far, diagnostics |-> reported]
    ELSE LET x == Head(exported)
             symbol_id == root_binding[x.name]
         IN IF symbol_id = NoSymbol
            THEN check_exported(Tail(exported), seen_so_far, reported)
            ELSE IF symbol_id \in seen_so_far
                 THEN check_exported(Tail(exported), seen_so_far, reported)
                 ELSE check_exported(
                        Tail(exported),
                        seen_so_far \cup {symbol_id},
                        IF ~has_any_attached_jsdoc(declaration[symbol_id])
                        THEN Append(reported, x.span)
                        ELSE reported)

\* RequirePublicDoc::run_once
run_once == check_exported(exported_symbols(local_export_entries), {}, <<>>)

LintInit ==
    /\ local_export_entries \in EntryLists
    /\ root_binding \in {b \in [Names -> Symbols \cup {NoSymbol}] :
                            \A n \in Names : b[n] \in {NoSymbol, SymbolOf[n]}}
    /\ declaration \in [Symbols -> Nodes]
    /\ parent \in {f \in [Nodes -> Nodes \cup {Program}] : \A n \in Nodes : f[n] < n}
    /\ jsdoc \in SUBSET Nodes
    /\ diagnostics = <<>>
    /\ seen = {}
    /\ ran = FALSE

\* The lint rule is not part of a lexer run, and the other way round.
LintIdle ==
    /\ local_export_entries = <<>>
    /\ root_binding = [n \in Names |-> NoSymbol]
    /\ declaration = [s \in Symbols |-> 1]
    /\ parent = [n \in Nodes |-> Program]
    /\ jsdoc = {}
    /\ diagnostics = <<>>
    /\ seen = {}
    /\ ran = FALSE

LexIdle ==
    /\ source = <<>>
    /\ pos = 0
    /\ token = DefaultToken
    /\ status = "ok"
    /\ overflow_checks = TRUE
    /\ tokens = <<>>
    /\ last = NoCall
    /\ lastNarrow = NoCall
    /\ narrowed = <<>>
    /\ clean = TRUE

RunOnce ==
    /\ ~ran
    /\ diagnostics' = run_once.diagnostics
    /\ seen' = run_once.seen
    /\ ran' = TRUE
    /\ UNCHANGED <<local_export_entries, root_binding, declaration, parent, jsdoc>>
    /\ UNCHANGED lexvars

\* ------------------------------------------------------------------ specifications
Init == LexInit /\ LintIdle

Next == NextToken \/ ReLexLAngle \/ ReLexRAngle

Spec == Init /\ [][Next]_vars

\* The parser goes on asking for tokens while there is source left.
SpecFair == Init /\ [][Next]_vars /\ WF_vars(NextToken)

LintNext == RunOnce

InitLint == LintInit /\ LexIdle

SpecLint == InitLint /\ [][LintNext]_vars

\* ------------------------------------------------------------------ properties
IsReLex(c) == c.op \in {"l_angle", "r_angle"}

FamilyOf(op) == IF op = "l_angle" THEN LAngleCompounds ELSE RAngleCompounds

SingleOf(op) == IF op = "l_angle" THEN "LAngle" ELSE "RAngle"

\* The widths of the compound-operator catalog as the specification lists them.
CatalogWidth ==
    [ LShift |-> 2, ShiftLeftEq |-> 3, LtEq |-> 2,
      RShift |-> 2, ShiftRight3 |-> 3, ShiftRightEq |-> 2 ]

\* The same catalog with `>>=` at its width of three bytes.
ByteWidth == [CatalogWidth EXCEPT !.ShiftRightEq = 3]

\* The last call was the matching entry point, made right after a compound K
\* of its family was scanned, with offset = width[K].
NarrowedWith(width) ==
    /\ IsReLex(last)
    /\ last.preToken.kind \in FamilyOf(last.op)
    /\ last.prePos = last.preToken.end
    /\ last.offset = width[last.preToken.kind]

ReturnedSingle ==
    /\ status = "ok"
    /\ tokens[last.idx].kind = SingleOf(last.op)
    /\ tokens[last.idx].start = last.preToken.start
    /\ Width(tokens[last.idx]) = 1

\* C1 as stated: narrowing a catalog compound K with offset = its catalog
\* width (`>>=` at 2) returns the single-character kind at K's start offset,
\* with width 1.
C1_NarrowCatalogWidth == NarrowedWith(CatalogWidth) => ReturnedSingle

\* C1 amended: narrowing a catalog compound K with offset = its byte width
\* (`<<` 2, `<<=` 3, `<=` 2, `>>` 2, `>>>` 3, `>>=` 3) returns the
\* single-character kind at K's start offset, with width 1.
C1_NarrowByteWidth == NarrowedWith(ByteWidth) => ReturnedSingle

C1_Witness ==
    /\ NarrowedWith(ByteWidth)
    /\ last.preToken.kind = "ShiftRightEq"
    /\ ReturnedSingle

\* The last call was a re-lex of the compound just scanned, with offset = the
\* compound's width (either entry point).
NarrowedCompound ==
    /\ IsReLex(last)
    /\ last.preToken.kind \in Compounds
    /\ last.prePos = last.preToken.end
    /\ last.offset = Width(last.preToken)

\* C2: after a narrow call on a compound that started at original_start the
\* cursor is at original_start + 1, the end of the returned token.
C2_CursorAfterNarrow ==
    NarrowedCompound =>
        /\ status = "ok"
        /\ pos = last.preToken.start + 1
        /\ pos = tokens[last.idx].end

C2_Witness ==
    /\ NarrowedCompound
    /\ last.op = "l_angle"
    /\ last.preToken.kind = "ShiftLeftEq"
    /\ pos = last.preToken.start + 1
    /\ last.preToken.start > 0

\* The greedy scan of src from offset p to its end.
RECURSIVE Tokenize(_, _)
Tokenize(src, p) ==
    IF p >= Len(src) THEN <<>>
    ELSE LET r == next_token([pos |-> p, token |-> DefaultToken, status |-> "ok"], src)
         IN <<r.token>> \o Tokenize(src, r.pos)

\* src as one token per byte.
SingleCharTokens(src) ==
    [i \in 1..Len(src) |->
        [kind |-> read_next_token(<<src[i]>>, 0).kind, start |-> i - 1, end |-> i]]

Relative(seq, d) ==
    [i \in 1..Len(seq) |->
        [kind |-> seq[i].kind, start |-> seq[i].start - d, end |-> seq[i].end - d]]

IsPrefix(a, b) == Len(a) <= Len(b) /\ \A i \in 1..Len(a) : a[i] = b[i]

\* The last re-lex call that returned kept the contract.
NarrowKept == IsReLex(lastNarrow) /\ lastNarrow.conforming

NarrowStart == lastNarrow.preToken.start
NarrowEnd == lastNarrow.preToken.end

\* The tokens scanned since that call, and those of them that begin inside
\* the compound.
ScannedSince == SubSeq(tokens, lastNarrow.idx + 1, Len(tokens))
InsideCompound == SelectSeq(ScannedSince, LAMBDA t : t.start < NarrowEnd)

\* The W - 1 bytes of the compound after its first.
Remainder == SubSeq(source, NarrowStart + 2, NarrowEnd)

\* C3 as stated: once scanning has passed the compound, the tokens over its
\* remaining W - 1 bytes are those of scanning these bytes in isolation, and
\* are the single-character tokens of these bytes.
C3_RescanIsolatedAndSingle ==
    (NarrowKept /\ pos >= NarrowEnd) =>
        /\ Relative(InsideCompound, NarrowStart + 1) = Tokenize(Remainder, 0)
        /\ Relative(InsideCompound, NarrowStart + 1) = SingleCharTokens(Remainder)

\* C3 amended: scanning on from the post-narrow cursor yields the tokens of a
\* greedy scan of the source from original_start + 1; where none of them
\* runs past the end of the compound, the tokens over the remaining W - 1
\* bytes are those of scanning these bytes in isolation; and for W = 2 that
\* is the one single-character token.
C3_RescanIsGreedyFromSecondByte ==
    NarrowKept =>
        /\ IsPrefix(ScannedSince, Tokenize(source, NarrowStart + 1))
        /\ (\A i \in 1..Len(InsideCompound) : InsideCompound[i].end <= NarrowEnd) =>
              /\ IsPrefix(Relative(InsideCompound, NarrowStart + 1),
                          Tokenize(Remainder, 0))
              /\ pos >= NarrowEnd =>
                    Relative(InsideCompound, NarrowStart + 1) = Tokenize(Remainder, 0)
              /\ (pos >= NarrowEnd /\ lastNarrow.offset = 2) =>
                    Relative(InsideCompound, NarrowStart + 1)
                        = SingleCharTokens(Remainder)

C3_Witness ==
    /\ NarrowKept
    /\ lastNarrow.offset = 3
    /\ pos = NarrowEnd
    /\ pos < Len(source)
    /\ Len(InsideCompound) = 1
    /\ Width(InsideCompound[1]) = 2

RECURSIVE TextOf(_, _)
TextOf(src, seq) ==
    IF seq = <<>> THEN <<>>
    ELSE SubSeq(src, Head(seq).start + 1, Head(seq).end) \o TextOf(src, Tail(seq))

\* C4: in a run of scan steps and narrow calls, each narrow applied to the
\* compound just produced, the spans of the stream are contiguous and
\* non-overlapping from offset 0 to the cursor, and the text of the tokens,
\* concatenated in order, is the source up to the cursor.
C4_RoundTrip ==
    clean =>
        /\ status = "ok"
        /\ \A i \in 1..Len(tokens) : tokens[i].start < tokens[i].end
        /\ tokens # <<>> => tokens[1].start = 0 /\ tokens[Len(tokens)].end = pos
        /\ \A i \in 1..(Len(tokens) - 1) : tokens[i].end = tokens[i + 1].start
        /\ TextOf(source, tokens) = SubSeq(source, 1, pos)

C4_Witness ==
    /\ clean
    /\ pos = Len(source)
    /\ \E i, j \in 1..Len(tokens) : i < j /\ narrowed[i] = 1 /\ narrowed[j] = 1

RECURSIVE Sum(_)
Sum(seq) == IF seq = <<>> THEN 0 ELSE Head(seq) + Sum(Tail(seq))

SecondKind == [LShift |-> "LAngle", RShift |-> "RAngle", LtEq |-> "Assign"]

\* A width-2 compound was narrowed with offset 2 and scanning went on.
NarrowedWidth2 ==
    /\ NarrowKept
    /\ lastNarrow.offset = 2
    /\ Len(tokens) > lastNarrow.idx

\* `<<` directly followed by another `<`.
ShiftThenAngle ==
    /\ lastNarrow.preToken.kind = "LShift"
    /\ NarrowEnd < Len(source)
    /\ source[NarrowEnd + 1] = "<"

TwoSingles ==
    LET k == lastNarrow.idx
        G == Tokenize(source, 0)
    IN /\ tokens[k] = [kind |-> SingleOf(lastNarrow.op),
                       start |-> NarrowStart, end |-> NarrowStart + 1]
       /\ tokens[k + 1] = [kind |-> SecondKind[lastNarrow.preToken.kind],
                           start |-> NarrowStart + 1, end |-> NarrowStart + 2]
       \* the only narrow of the run: the rest of the stream is the greedy one
       /\ Sum(narrowed) = 1 =>
            /\ G[k] = lastNarrow.preToken
            /\ SubSeq(tokens, 1, k - 1) = SubSeq(G, 1, k - 1)
            /\ SubSeq(tokens, k + 2, Len(tokens)) = SubSeq(G, k + 1, Len(tokens) - 1)

\* C5 as stated: a width-2 compound, narrowed with offset 2 and followed by
\* one scan step, gives two width-1 tokens over its two bytes (`<<`: LAngle
\* LAngle, `>>`: RAngle RAngle, `<=`: LAngle Assign), the tokens before and
\* after being those of the greedy scan.
C5_Width2TwoSingles == NarrowedWidth2 => TwoSingles

\* C5 amended: the same, unless the compound is `<<` directly followed by
\* another `<`.
C5_Width2TwoSinglesUnlessShiftThenAngle ==
    (NarrowedWidth2 /\ ~ShiftThenAngle) => TwoSingles

C5_Witness ==
    /\ NarrowedWidth2
    /\ ~ShiftThenAngle
    /\ lastNarrow.preToken.kind = "LtEq"
    /\ lastNarrow.idx = 2
    /\ Len(tokens) = 4
    /\ TwoSingles

\* C6: a scan step never moves the cursor back; only a narrow step does; and
\* a narrow step whose offset is the width just scanned leaves the cursor
\* after the start of the narrowed token, without underflow.
C6_CursorMoves ==
    [][ /\ last'.op = "scan" => pos' >= pos
        /\ pos' < pos => IsReLex(last')
        /\ (IsReLex(last') /\ last'.conforming) =>
              /\ status' = "ok"
              /\ pos' > token.start
              /\ pos' <= pos
              /\ token'.start = token.start ]_vars

C6_Witness ==
    /\ IsReLex(last)
    /\ last.conforming
    /\ last.preToken.kind = "ShiftRight3"
    /\ pos = last.prePos - 2
    /\ pos > last.preToken.start

\* The last call broke the caller's contract: offset above the width of the
\* current token, or a current token outside the catalog.
ContractBroken ==
    /\ IsReLex(last)
    /\ \/ last.offset > Width(last.preToken)
       \/ last.preToken.kind \notin Compounds

\* C7: a narrow call that breaks the contract ends in an assertion failure,
\* returns no token and moves neither the token start nor the cursor.
C7_ViolationAsserts ==
    ContractBroken =>
        /\ status = "panic"
        /\ pos = last.prePos
        /\ token.start = last.preToken.start
        /\ tokens[last.idx] = last.preToken

\* C8: a token goes from as-scanned to narrowed once, by a narrow call and
\* never by a scan step, and a narrowed token is not narrowed again.
C8_NarrowedOnce ==
    [][ /\ last'.op = "scan" =>
              /\ SubSeq(tokens', 1, Len(tokens)) = tokens
              /\ SubSeq(narrowed', 1, Len(narrowed)) = narrowed
              /\ narrowed'[Len(narrowed')] = 0
        /\ (IsReLex(last') /\ last'.conforming) =>
              /\ narrowed[last'.idx] = 0
              /\ narrowed'[last'.idx] = 1
              /\ tokens[last'.idx].kind \in Compounds
              /\ tokens'[last'.idx].kind \in {"LAngle", "RAngle"}
              /\ Width(tokens'[last'.idx]) = 1
              /\ \A i \in 1..Len(tokens) :
                    i # last'.idx => tokens'[i] = tokens[i] /\ narrowed'[i] = narrowed[i]
        /\ clean' => \A i \in 1..Len(narrowed') : narrowed'[i] <= 1 ]_vars

C8_Witness ==
    /\ clean
    /\ last.op = "scan"
    /\ \E i \in 1..(Len(tokens) - 1) :
          narrowed[i] = 1 /\ tokens[i].kind = "RAngle" /\ tokens[i + 1].kind = "RShift"
\* The nodes from n up to, not including, Program.
RECURSIVE BelowProgram(_)
BelowProgram(n) == IF n = Program THEN {} ELSE {n} \cup BelowProgram(parent[n])

Documented(sym) == BelowProgram(declaration[sym]) \cap jsdoc # {}

\* The entries that export sym locally: no module request, a local name that
\* resolves to sym.
LocalEntries(sym) ==
    {i \in 1..Len(local_export_entries) :
        LET e == local_export_entries[i] IN
        /\ ~e.module_request
        /\ e.local_name.kind # "Null"
        /\ root_binding[e.local_name.name] = sym}

LocallyExported == {sym \in Symbols : LocalEntries(sym) # {}}

FirstSpan(sym) ==
    LET first == CHOOSE i \in LocalEntries(sym) : \A j \in LocalEntries(sym) : i <= j
    IN local_export_entries[first].span

Reports(span) == Cardinality({j \in 1..Len(diagnostics) : diagnostics[j] = span})

\* C9: run_once reports a locally exported root binding iff neither its
\* declaration node nor an ancestor below Program has JSDoc attached; each
\* such symbol once, at the span of the first entry exporting it; nothing for
\* a documented symbol.
C9_ReportsUndocumentedOnce ==
    ran =>
        /\ \A sym \in LocallyExported :
              /\ ~Documented(sym) => Reports(FirstSpan(sym)) = 1
              /\ Documented(sym) =>
                    \A i \in LocalEntries(sym) : Reports(local_export_entries[i].span) = 0
        /\ Len(diagnostics) = Cardinality({sym \in LocallyExported : ~Documented(sym)})

C9_Witness ==
    /\ ran
    /\ \E sym \in LocallyExported :
          /\ Cardinality(LocalEntries(sym)) = 2
          /\ parent[declaration[sym]] # Program
          /\ ~Documented(sym)
          /\ diagnostics = <<1>>

\* The entries run_once passes over: a re-export, a Null local name, or a
\* name without root binding.
Ignored(e) ==
    \/ e.module_request
    \/ e.local_name.kind = "Null"
    \/ root_binding[e.local_name.name] = NoSymbol

\* C10: run_once gives no diagnostic for an entry with a module request, a
\* Null local name or a name that has no root binding, and such entries mark
\* no symbol as seen.
C10_IgnoredEntriesSilent ==
    ran =>
        /\ \A i \in 1..Len(local_export_entries) :
              Ignored(local_export_entries[i]) =>
                  Reports(local_export_entries[i].span) = 0
        /\ seen = LocallyExported

C10_Witness ==
    /\ ran
    /\ \E i \in 1..Len(local_export_entries) :
          LET e == local_export_entries[i] IN
          /\ e.module_request
          /\ e.local_name.kind = "Name"
          /\ root_binding[e.local_name.name] # NoSymbol
          /\ ~Documented(root_binding[e.local_name.name])
    /\ diagnostics = <<>>
    /\ seen = {}
\* C11: a narrow call that keeps the contract returns in its one step with
\* the cursor after the start of the narrowed token; in a run of scan steps
\* and such calls the starts of successive tokens increase strictly; and, the
\* scan step being fair, the cursor reaches the end of the source.
C11_Progress ==
    /\ [][ (IsReLex(last') /\ last'.conforming) =>
              /\ status' = "ok"
              /\ lastNarrow' = last'
              /\ pos' > token'.start ]_vars
    /\ [](clean => \A i \in 1..(Len(tokens) - 1) :
                      tokens[i].start < tokens[i + 1].start)
    /\ <>(~clean \/ pos = Len(source))

C11_Witness ==
    /\ clean
    /\ pos = Len(source)
    /\ Len(tokens) = 3
    /\ narrowed = <<0, 1, 0>>
    /\ lastNarrow.offset = 3
\* C12: a narrow call changes the cursor position and the kind, start and end
\* of the current token only: the source buffer and every token produced
\* before the narrowed one stay as they were.
C12_NarrowFrame ==
    [][ IsReLex(last') =>
          /\ source' = source
          /\ Len(tokens') = Len(tokens)
          /\ \A i \in 1..(Len(tokens) - 1) : tokens'[i] = tokens[i]
          /\ last'.conforming => status' = status ]_vars

C12_Witness ==
    /\ IsReLex(last)
    /\ last.conforming
    /\ last.idx = 3
    /\ status = "ok"
    /\ pos # last.prePos
    /\ token.kind # last.preToken.kind
    /\ token.end # last.preToken.end
\* The lexer with the byte at offset p replaced by c.
WithByte(lx, p, c) == [lx EXCEPT !.source = [@ EXCEPT ![p + 1] = c]]

SameButKind(l, r) ==
    /\ l.status = r.status
    /\ l.pos = r.pos
    /\ l.token.start = r.token.start
    /\ l.token.end = r.token.end

\* C13: from one lexer state and one offset the two entry points end with
\* the same status and cursor and return tokens with the same start and end,
\* of kind LAngle and RAngle; and the bytes of the token have no part in it.
C13_Symmetric ==
    (status = "ok" /\ tokens # <<>>) =>
        \A offset \in Offsets :
            LET l == re_lex_as_typescript_l_angle(Lx, offset)
                r == re_lex_as_typescript_r_angle(Lx, offset)
            IN /\ SameButKind(l, r)
               /\ l.status = "ok" => l.token.kind = "LAngle" /\ r.token.kind = "RAngle"
               /\ \A p \in 0..(Len(source) - 1), c \in Chars :
                     /\ SameButKind(l, re_lex_as_typescript_l_angle(WithByte(Lx, p, c), offset))
                     /\ SameButKind(r, re_lex_as_typescript_r_angle(WithByte(Lx, p, c), offset))

\* The right-angle entry point has narrowed a `<<`, to the span the
\* left-angle one gives from the same state.
C13_Witness ==
    /\ last.op = "r_angle"
    /\ last.preToken.kind = "LShift"
    /\ last.offset = 2
    /\ status = "ok"
    /\ token.kind = "RAngle"
    /\ LET before == [source |-> source, pos |-> last.prePos,
                      token |-> last.preToken, status |-> "ok"]
       IN SameButKind(Lx, re_lex_as_typescript_l_angle(before, 2))
====
